---- MODULE Spec2Model ----
(***************************************************************************)
(* The Cropper facade of packages/cropper-1.x/lib/cropper.vue: a Vue       *)
(* component that constructs one CropperJs instance at mount, keeps it in  *)
(* the ref `cropper`, forwards its exposed methods to that instance and    *)
(* re-emits the instance's callbacks as component events.                  *)
(*                                                                         *)
(* The CropperJs library is not part of the repository.  It is modelled as *)
(* a black box: an object that records the calls it receives, whether      *)
(* destroy() was called on it, and the aspect ratio it was last given (by  *)
(* its construction options or by setAspectRatio).                         *)
(***************************************************************************)
EXTENDS Integers, Sequences, FiniteSets, TLC

\* ------------------------------------------------------------------ bounds
\* Calls of exposed methods made by the host in one behaviour.
MaxCalls == 2
\* Callback firings of the underlying instance in one behaviour.
MaxFires == 1

\* ------------------------------------------------------------------ values
\* JavaScript's undefined: an empty ref, an omitted argument, a missing result.
Undef == "undefined"
Nums == {"1", "2"}
Bools == {"true", "false"}
Urls == {"a.png"}
Pivots == {"{x:0,y:0}"}
DataObjs == {"{width:1}"}
DragModes == {"crop", "move"}
\* What the underlying library returns from a call: the record asked for from
\* a getter, the canvas from getCroppedCanvas, and the instance itself from
\* every other method.
Getters == {"getData", "getContainerData", "getImageData", "getCanvasData", "getCropBoxData"}
URets(um) == IF um \in Getters THEN {"data"} ELSE IF um = "getCroppedCanvas" THEN {"canvas"} ELSE {"this"}
\* The event object the underlying library hands to a callback.
Details == {"event"}
\* The element the template renders, as seen through imageRef at mount.
ImageEl == "img"
\* The one CropperJs instance a facade can hold.
Inst == "CropperJs#1"

\* ------------------------------------------------------- argument lists
\* The argument lists a caller can supply, per signature.  An optional
\* parameter is either left out or given (possibly as an explicit undefined).
NoArgs == {<<>>}
OneNum == {<<n>> : n \in Nums}
NumOptNum == OneNum \cup {<<n, m>> : n \in Nums, m \in Nums \cup {Undef}}
ReplaceArgs == {<<u>> : u \in Urls} \cup {<<u, b>> : u \in Urls, b \in Bools \cup {Undef}}
ZoomToArgs == OneNum \cup {<<n, p>> : n \in Nums, p \in Pivots \cup {Undef}}
OptBool == {<<>>} \cup {<<b>> : b \in Bools \cup {Undef}}
OneData == {<<d>> : d \in DataObjs}
OptData == {<<>>} \cup {<<d>> : d \in DataObjs \cup {Undef}}
OneMode == {<<m>> : m \in DragModes}

\* The i-th parameter of a JavaScript call: undefined when not supplied.
Param(a, i) == IF i <= Len(a) THEN a[i] ELSE Undef
\* A default parameter value (`y = x`): used when the parameter is undefined.
Default(v, d) == IF v = Undef THEN d ELSE v

VARIABLES
    phase,        \* the hosting component: "setup", "mounted", "unmounted"
    imageRef,     \* imageRef.value at mount
    props,        \* the component props the facade forwards (aspectRatio)
    cropper,      \* cropper.value: Undef or the instance
    instance,     \* the underlying CropperJs instance (black box)
    constructions,\* number of `new CropperJs` executed
    calls,        \* number of exposed-method calls made by the host
    lastOp,       \* the last exposed-method call: method and arguments
    lastOutcome,  \* how that call ended: a returned value or a thrown error
    ucalls,       \* number of method calls received by the underlying instance
    lastUCall,    \* the last of them: method, arguments and its return value
    fires,        \* number of callback firings by the underlying instance
    lastFire,     \* the last of them: callback and event object
    emits,        \* number of emit() calls
    lastEmit      \* the last of them: event name and payload arguments

vars == <<phase, imageRef, props, cropper, instance, constructions, calls, lastOp, lastOutcome, ucalls, lastUCall, fires, lastFire, emits, lastEmit>>

hostVars == <<phase, imageRef, props>>
callVars == <<calls, lastOp, lastOutcome>>
ucallVars == <<ucalls, lastUCall>>
eventVars == <<fires, lastFire, emits, lastEmit>>

NoInstance == [state |-> "none", aspectRatio |-> Undef, destroyCalls |-> 0]

Init ==
    /\ phase = "setup"
    /\ imageRef \in {ImageEl, Undef}
    /\ props \in [aspectRatio : Nums \cup {Undef}]
    /\ cropper = Undef
    /\ instance = NoInstance
    /\ constructions = 0
    /\ calls = 0
    /\ lastOp = [m |-> "none", args |-> <<>>]
    /\ lastOutcome = [kind |-> "none", value |-> Undef]
    /\ ucalls = 0
    /\ lastUCall = [m |-> "none", args |-> <<>>, ret |-> Undef]
    /\ fires = 0
    /\ lastFire = [cb |-> "none", detail |-> Undef]
    /\ emits = 0
    /\ lastEmit = [name |-> "none", args |-> <<>>]

\* --------------------------------------------------- underlying library
\* new CropperJs(element, options): a live instance configured by options.
NewCropperJs(options) == [state |-> "live", aspectRatio |-> options.aspectRatio, destroyCalls |-> 0]

\* What a method call does to the underlying instance, as far as the facade's
\* contract names it: destroy() releases it, setAspectRatio(r) changes its
\* aspect ratio.
UnderlyingEffect(inst, um, ua) ==
    CASE um = "destroy" -> [inst EXCEPT !.state = "destroyed", !.destroyCalls = @ + 1]
      [] um = "setAspectRatio" -> [inst EXCEPT !.aspectRatio = ua[1]]
      [] OTHER -> inst

\* ------------------------------------------------------------ lifecycle
\* onMounted(() => { if (imageRef.value) cropper.value = new CropperJs(...) })
onMounted ==
    /\ phase = "setup"
    /\ phase' = "mounted"
    /\ IF imageRef # Undef
         THEN /\ cropper' = Inst
              /\ instance' = NewCropperJs([aspectRatio |-> props.aspectRatio])
              /\ constructions' = constructions + 1
         ELSE UNCHANGED <<cropper, instance, constructions>>
    /\ UNCHANGED <<imageRef, props, callVars, ucallVars, eventVars>>

\* The host unmounts the component.  The component registers no unmount hook.
unmount ==
    /\ phase = "mounted"
    /\ phase' = "unmounted"
    /\ UNCHANGED <<imageRef, props, cropper, instance, constructions, callVars, ucallVars, eventVars>>


\* A variant of propsUpdate: a watcher re-supplies the changed aspectRatio to
\* the instance.
propsUpdate_watch ==
    /\ phase = "mounted"
    /\ \E r \in Nums \cup {Undef} :
         /\ r # props.aspectRatio
         /\ props' = [props EXCEPT !.aspectRatio = r]
         /\ IF cropper = Undef
              THEN UNCHANGED <<instance, ucallVars>>
              ELSE /\ ucalls' = ucalls + 1
                   /\ lastUCall' = [m |-> "setAspectRatio", args |-> <<r>>, ret |-> "this"]
                   /\ instance' = UnderlyingEffect(instance, "setAspectRatio", <<r>>)
    /\ UNCHANGED <<phase, imageRef, cropper, constructions, callVars, eventVars>>

\* The host changes the aspectRatio prop of the mounted component.  Nothing
\* watches the prop.
propsUpdate ==
    /\ phase = "mounted"
    /\ \E r \in Nums \cup {Undef} :
         /\ r # props.aspectRatio
         /\ props' = [props EXCEPT !.aspectRatio = r]
    /\ UNCHANGED <<phase, imageRef, cropper, instance, constructions, callVars, ucallVars, eventVars>>

\* ------------------------------------------------------------ forwarding
\* The host calls exposed method `op` with arguments `a`; the outcome of the
\* call is recorded.
Returned(v) == [kind |-> "return", value |-> v]
Threw(e) == [kind |-> "throw", value |-> e]

\* The underlying instance receives um(ua) and returns r.
Receive(um, ua, r) ==
    /\ ucalls' = ucalls + 1
    /\ lastUCall' = [m |-> um, args |-> ua, ret |-> r]
    /\ instance' = UnderlyingEffect(instance, um, ua)

\* return cropper.value?.um(ua): undefined when the ref is empty, else the
\* instance's return value.
OptionalCall(op, a, um, ua) ==
    /\ calls < MaxCalls
    /\ calls' = calls + 1
    /\ lastOp' = [m |-> op, args |-> a]
    /\ IF cropper = Undef
         THEN /\ lastOutcome' = Returned(Undef)
              /\ UNCHANGED <<instance, ucallVars>>
         ELSE \E r \in URets(um) :
                /\ Receive(um, ua, r)
                /\ lastOutcome' = Returned(r)
    /\ UNCHANGED <<hostVars, cropper, constructions, eventVars>>

\* return cropper.value!.um(ua): the non-null assertion is erased at compile
\* time, so an empty ref makes the member access throw a TypeError.
AssertedCall(op, a, um, ua) ==
    /\ calls < MaxCalls
    /\ calls' = calls + 1
    /\ lastOp' = [m |-> op, args |-> a]
    /\ IF cropper = Undef
         THEN /\ lastOutcome' = Threw("TypeError")
              /\ UNCHANGED <<instance, ucallVars>>
         ELSE \E r \in URets(um) :
                /\ Receive(um, ua, r)
                /\ lastOutcome' = Returned(r)
    /\ UNCHANGED <<hostVars, cropper, constructions, eventVars>>

\* ------------------------------------------------------ exposed methods
reset == \E a \in NoArgs : OptionalCall("reset", a, "reset", <<>>)

clear == \E a \in NoArgs : OptionalCall("clear", a, "clear", <<>>)

initCrop == \E a \in NoArgs : OptionalCall("initCrop", a, "crop", <<>>)


\* A variant of replace: the facade rebuilds the cropper itself, constructing
\* a new instance on the image.
replace_rebuild ==
    /\ calls < MaxCalls
    /\ cropper # Undef
    /\ \E a \in ReplaceArgs :
         /\ calls' = calls + 1
         /\ lastOp' = [m |-> "replace", args |-> a]
         /\ lastOutcome' = Returned("this")
    /\ cropper' = Inst
    /\ instance' = NewCropperJs([aspectRatio |-> props.aspectRatio])
    /\ constructions' = constructions + 1
    /\ UNCHANGED <<hostVars, ucallVars, eventVars>>

\* replace(url, onlyColorChanged = false)
replace == \E a \in ReplaceArgs : OptionalCall("replace", a, "replace", <<Param(a, 1), Default(Param(a, 2), "false")>>)

enable == \E a \in NoArgs : OptionalCall("enable", a, "enable", <<>>)

disable == \E a \in NoArgs : OptionalCall("disable", a, "disable", <<>>)

destroy == \E a \in NoArgs : OptionalCall("destroy", a, "destroy", <<>>)

\* move(offsetX, offsetY?)
move == \E a \in NumOptNum : AssertedCall("move", a, "move", <<Param(a, 1), Param(a, 2)>>)

\* moveTo(x, y = x)
moveTo == \E a \in NumOptNum : OptionalCall("moveTo", a, "moveTo", <<Param(a, 1), Default(Param(a, 2), Param(a, 1))>>)

zoom == \E a \in OneNum : OptionalCall("zoom", a, "zoom", <<Param(a, 1)>>)

\* zoomTo(ratio, _originalEvent?)
zoomTo == \E a \in ZoomToArgs : OptionalCall("zoomTo", a, "zoomTo", <<Param(a, 1), Param(a, 2)>>)


\* A variant of rotate: written with the non-null assertion instead of the
\* optional chain.
rotate_asserted == \E a \in OneNum : AssertedCall("rotate", a, "rotate", <<Param(a, 1)>>)

rotate == \E a \in OneNum : OptionalCall("rotate", a, "rotate", <<Param(a, 1)>>)

rotateTo == \E a \in OneNum : OptionalCall("rotateTo", a, "rotateTo", <<Param(a, 1)>>)

scaleX == \E a \in OneNum : OptionalCall("scaleX", a, "scaleX", <<Param(a, 1)>>)

scaleY == \E a \in OneNum : OptionalCall("scaleY", a, "scaleY", <<Param(a, 1)>>)


\* A variant of scale: the two ratios are forwarded in the wrong order.
scale_swapped == \E a \in NumOptNum : OptionalCall("scale", a, "scale", <<Default(Param(a, 2), Param(a, 1)), Param(a, 1)>>)

\* scale(scaleX, scaleY = scaleX)
scale == \E a \in NumOptNum : OptionalCall("scale", a, "scale", <<Param(a, 1), Default(Param(a, 2), Param(a, 1))>>)

\* getData(rounded = false)
getData == \E a \in OptBool : OptionalCall("getData", a, "getData", <<Default(Param(a, 1), "false")>>)

setData == \E a \in OneData : AssertedCall("setData", a, "setData", <<Param(a, 1)>>)

getContainerData == \E a \in NoArgs : OptionalCall("getContainerData", a, "getContainerData", <<>>)

getImageData == \E a \in NoArgs : OptionalCall("getImageData", a, "getImageData", <<>>)

getCanvasData == \E a \in NoArgs : OptionalCall("getCanvasData", a, "getCanvasData", <<>>)

setCanvasData == \E a \in OneData : AssertedCall("setCanvasData", a, "setCanvasData", <<Param(a, 1)>>)

getCropBoxData == \E a \in NoArgs : OptionalCall("getCropBoxData", a, "getCropBoxData", <<>>)

setCropBoxData == \E a \in OneData : AssertedCall("setCropBoxData", a, "setCropBoxData", <<Param(a, 1)>>)


\* A variant of getCroppedCanvas: the facade also emits the declared `result`
\* event with the canvas.
getCroppedCanvas_result ==
    /\ calls < MaxCalls
    /\ cropper # Undef
    /\ \E a \in OptData : \E r \in URets("getCroppedCanvas") :
         /\ calls' = calls + 1
         /\ lastOp' = [m |-> "getCroppedCanvas", args |-> a]
         /\ Receive("getCroppedCanvas", <<Default(Param(a, 1), "{}")>>, r)
         /\ lastOutcome' = Returned(r)
         /\ emits' = emits + 1
         /\ lastEmit' = [name |-> "result", args |-> <<r>>]
    /\ UNCHANGED <<hostVars, cropper, constructions, fires, lastFire>>

\* getCroppedCanvas(options = {})
getCroppedCanvas == \E a \in OptData : AssertedCall("getCroppedCanvas", a, "getCroppedCanvas", <<Default(Param(a, 1), "{}")>>)

setAspectRatio == \E a \in OneNum : AssertedCall("setAspectRatio", a, "setAspectRatio", <<Param(a, 1)>>)

setDragMode == \E a \in OneMode : AssertedCall("setDragMode", a, "setDragMode", <<Param(a, 1)>>)

\* ------------------------------------------------------------ callbacks
\* emit(e, ...args)
emit(e, args) ==
    /\ emits' = emits + 1
    /\ lastEmit' = [name |-> e, args |-> args]

\* The live underlying instance fires callback cb with an event object.
Fire(cb, detail) ==
    /\ instance.state = "live"
    /\ fires < MaxFires
    /\ fires' = fires + 1
    /\ lastFire' = [cb |-> cb, detail |-> detail]
    /\ UNCHANGED <<hostVars, cropper, instance, constructions, callVars, ucallVars>>

\* ready: () => { emit('ready') }
options_ready == \E d \in Details : Fire("ready", d) /\ emit("ready", <<>>)

\* cropstart: () => emit('start')
options_cropstart == \E d \in Details : Fire("cropstart", d) /\ emit("start", <<>>)


\* A variant of options_cropmove: the handler passes the event object on
\* (cropmove: e => emit('move', e)).
options_cropmove_detail == \E d \in Details : Fire("cropmove", d) /\ emit("move", <<d>>)

\* cropmove: () => emit('move')
options_cropmove == \E d \in Details : Fire("cropmove", d) /\ emit("move", <<>>)

\* cropend: () => emit('end')
options_cropend == \E d \in Details : Fire("cropend", d) /\ emit("end", <<>>)

\* crop: () => emit('crop')
options_crop == \E d \in Details : Fire("crop", d) /\ emit("crop", <<>>)

\* zoom: () => emit('zoom')
options_zoom == \E d \in Details : Fire("zoom", d) /\ emit("zoom", <<>>)

\* ------------------------------------------------------- specification
Next ==
    \/ onMounted
    \/ unmount
    \/ propsUpdate
    \/ reset
    \/ clear
    \/ initCrop
    \/ replace
    \/ enable
    \/ disable
    \/ destroy
    \/ move
    \/ moveTo
    \/ zoom
    \/ zoomTo
    \/ rotate
    \/ rotateTo
    \/ scaleX
    \/ scaleY
    \/ scale
    \/ getData
    \/ setData
    \/ getContainerData
    \/ getImageData
    \/ getCanvasData
    \/ setCanvasData
    \/ getCropBoxData
    \/ setCropBoxData
    \/ getCroppedCanvas
    \/ setAspectRatio
    \/ setDragMode
    \/ options_ready
    \/ options_cropstart
    \/ options_cropmove
    \/ options_cropend
    \/ options_crop
    \/ options_zoom

Spec == Init /\ [][Next]_vars

\* ============================================================= claims
\* The exposed methods, by the way they reach the instance.
OptionalChained == {"reset", "clear", "initCrop", "replace", "enable", "disable", "destroy", "moveTo", "zoom", "zoomTo", "rotate", "rotateTo", "scaleX", "scaleY", "scale", "getData", "getContainerData", "getImageData", "getCanvasData", "getCropBoxData"}
NonNullAsserted == {"move", "setData", "setCanvasData", "setCropBoxData", "getCroppedCanvas", "setAspectRatio", "setDragMode"}
\* The facade's lifecycle state, read off the underlying instance.
Lifecycle == CASE instance.state = "none" -> "unmounted" [] instance.state = "live" -> "mounted" [] OTHER -> "destroyed"
Rank(l) == CASE l = "unmounted" -> 0 [] l = "mounted" -> 1 [] OTHER -> 2
\* The signals the facade may emit, and the one owed to each callback.
Signals == {"ready", "start", "move", "end", "crop", "zoom"}
SignalOf(cb) == CASE cb = "ready" -> "ready" [] cb = "cropstart" -> "start" [] cb = "cropmove" -> "move" [] cb = "cropend" -> "end" [] cb = "crop" -> "crop" [] cb = "zoom" -> "zoom" [] OTHER -> "none"
\* The underlying method an exposed method stands for.
UnderlyingOf(op) == IF op = "initCrop" THEN "crop" ELSE op

\* C1: while the instance holder is empty, every call of an exposed method
\* returns an absent result and none raises.
C1_AbsentWhileHolderEmpty ==
    (cropper = Undef /\ lastOp.m # "none") => lastOutcome = Returned(Undef)

\* C2: once destroy() has been called on a mounted facade, every later call
\* of an exposed method returns an absent result and does not reach the
\* underlying instance.
C2_NoForwardAfterDestroy ==
    [][(instance.destroyCalls > 0 /\ calls' = calls + 1) => (lastOutcome' = Returned(Undef) /\ UNCHANGED <<ucalls, lastUCall, instance>>)]_vars

\* C3: over any sequence of destroy() calls and unmount, the underlying
\* instance's destroy is invoked exactly once: never a second time, and
\* once by the time the hosting element is unmounted.
C3_ReleasedExactlyOnce ==
    /\ instance.destroyCalls <= 1
    /\ (phase = "unmounted" /\ constructions > 0) => instance.destroyCalls = 1

\* C4: after unmount of the hosting element no live instance remains.
C4_NoInstanceOutlivesElement ==
    phase = "unmounted" => instance.state # "live"

\* C5: every firing of an underlying callback makes the facade emit exactly
\* one signal, the one mapped to that callback, with no payload.
C5_OneSignalPerFiring ==
    [][fires' # fires => (fires' = fires + 1 /\ emits' = emits + 1 /\ lastEmit' = [name |-> SignalOf(lastFire'.cb), args |-> <<>>])]_vars

C5_Witness ==
    fires = 1 /\ lastFire = [cb |-> "cropmove", detail |-> "event"] /\ emits = 1 /\ lastEmit.name = "move"

\* C6 (as stated): while the instance is live, each call of an exposed
\* method makes exactly one call of the corresponding underlying method with
\* exactly the arguments the caller supplied, and returns its return value.
C6_ExactArguments ==
    [][(calls' = calls + 1 /\ instance.state = "live") => (ucalls' = ucalls + 1 /\ lastUCall'.m = UnderlyingOf(lastOp'.m) /\ lastUCall'.args = lastOp'.args /\ lastOutcome' = Returned(lastUCall'.ret))]_vars

\* The arguments the underlying method is owed for a call op(a): the caller's,
\* with an optional argument left out (or undefined) replaced by the declared
\* default, or passed as undefined where there is none.
ForwardedArgs(op, a) ==
    CASE op = "replace" -> <<Param(a, 1), IF Param(a, 2) = Undef THEN "false" ELSE a[2]>>
      [] op \in {"moveTo", "scale"} -> <<Param(a, 1), IF Param(a, 2) = Undef THEN a[1] ELSE a[2]>>
      [] op \in {"move", "zoomTo"} -> <<Param(a, 1), Param(a, 2)>>
      [] op = "getData" -> <<IF Param(a, 1) = Undef THEN "false" ELSE a[1]>>
      [] op = "getCroppedCanvas" -> <<IF Param(a, 1) = Undef THEN "{}" ELSE a[1]>>
      [] OTHER -> a

\* C6 (amended): while the instance is live, each call of an exposed method
\* makes exactly one call of the corresponding underlying method, with the
\* caller's arguments in order and every omitted optional argument filled in
\* as the facade declares it, and returns that call's return value unchanged.
C6_ArgumentsWithDefaults ==
    [][(calls' = calls + 1 /\ instance.state = "live") => (ucalls' = ucalls + 1 /\ lastUCall'.m = UnderlyingOf(lastOp'.m) /\ lastUCall'.args = ForwardedArgs(lastOp'.m, lastOp'.args) /\ lastOutcome' = Returned(lastUCall'.ret))]_vars

C6_Witness ==
    /\ instance.state = "live"
    /\ lastOp = [m |-> "scale", args |-> <<"2">>]
    /\ lastUCall = [m |-> "scale", args |-> <<"2", "2">>, ret |-> "this"]
    /\ lastOutcome = Returned("this")

C8_ConfigOnlyAtConstruction ==
    /\ [][props' # props => UNCHANGED <<cropper, instance, constructions, ucalls, lastUCall>>]_vars
    /\ [][instance'.aspectRatio # instance.aspectRatio => \/ (constructions' = constructions + 1 /\ instance'.aspectRatio = props.aspectRatio)
                                                          \/ (calls' = calls + 1 /\ lastOp'.m = "setAspectRatio" /\ instance'.aspectRatio = lastOp'.args[1])]_vars

C8_Witness ==
    /\ phase = "mounted"
    /\ instance.state = "live"
    /\ ucalls = 0
    /\ props.aspectRatio # instance.aspectRatio

\* C9: the facade emits only ready, start, move, end, crop and zoom, and each
\* emission answers a callback firing of a constructed instance: the mount,
\* the exposed methods and the prop changes emit nothing, and `result` is
\* never emitted.
C9_OnlyCallbackSignals ==
    /\ [](emits > 0 => lastEmit.name \in Signals)
    /\ [](lastEmit.name # "result")
    /\ [](cropper = Undef => emits = 0)
    /\ [][(emits' # emits \/ lastEmit' # lastEmit) => (fires' = fires + 1 /\ cropper # Undef /\ UNCHANGED <<calls, phase, props>>)]_vars

C9_Witness ==
    /\ calls = 1
    /\ lastOp.m = "zoom"
    /\ ucalls = 1
    /\ fires = 1
    /\ lastFire.cb = "zoom"
    /\ emits = 1
    /\ lastEmit = [name |-> "zoom", args |-> <<>>]

\* C10: with the holder empty, a call of an optional-chained method returns
\* undefined, calls nothing, emits nothing and leaves the holder and the
\* lifecycle as they were; and no exposed method ever assigns the holder.
C10_EmptyHolderNoOp ==
    /\ [][(calls' = calls + 1 /\ cropper = Undef /\ lastOp'.m \in OptionalChained) => (lastOutcome' = Returned(Undef) /\ UNCHANGED <<cropper, instance, constructions, phase, ucalls, lastUCall, emits, lastEmit>>)]_vars
    /\ [][calls' = calls + 1 => cropper' = cropper]_vars

C10_Witness ==
    /\ phase = "mounted"
    /\ cropper = Undef
    /\ lastOp = [m |-> "rotate", args |-> <<"1">>]
    /\ lastOutcome = Returned(Undef)
    /\ ucalls = 0

====
